---- MODULE Spec2Model ----
(***************************************************************************)
(* Model of the clinic scraper (src/src/lib.rs, src/src/main.rs):          *)
(* Scraper::new, scrape_pages_parallel, scrape_pages, scrape_page.         *)
(* Text is a sequence of one-character strings.                            *)
(***************************************************************************)
EXTENDS Integers, Sequences, FiniteSets, TLC

\* ------------------------------------------------------------------ bounds
MaxPages == 3
MaxParallel == 2
MaxAddrLen == 3
MaxLinks == 3
CatAddrLen == 1
CatLinks == 1
MaxFieldLen == 2
MaxRecords == 2
MaxLivePages == 2

\* ------------------------------------------------------- Option / Result
None == <<>>
Some(x) == <<x>>
IsSome(o) == Len(o) = 1

Ok(v) == [ok |-> TRUE, val |-> v]
Err == [ok |-> FALSE, val |-> <<>>]

\* ------------------------------------------------------------------ text
WhiteSpace == {" ", "\t", "\n"}
\* char::is_numeric holds for every character of the Unicode categories Nd,
\* Nl and No: the decimal digits, and also characters such as the fraction
NumericChars == {"0", "1", "2", "3", "4", "5", "6", "7", "8", "9", "¾"}

IsWhitespace(c) == c \in WhiteSpace
IsNumeric(c) == c \in NumericChars

RECURSIVE TrimStart(_)
TrimStart(s) ==
    IF s = <<>> THEN <<>>
    ELSE IF IsWhitespace(Head(s)) THEN TrimStart(Tail(s))
    ELSE s

RECURSIVE TrimEnd(_)
TrimEnd(s) ==
    IF s = <<>> THEN <<>>
    ELSE IF IsWhitespace(s[Len(s)]) THEN TrimEnd(SubSeq(s, 1, Len(s) - 1))
    ELSE s

Trim(s) == TrimEnd(TrimStart(s))

\* split_whitespace: the maximal runs of non-whitespace characters, in order
RECURSIVE SplitFrom(_, _, _)
SplitFrom(s, cur, acc) ==
    IF s = <<>> THEN (IF cur = <<>> THEN acc ELSE Append(acc, cur))
    ELSE IF IsWhitespace(Head(s))
         THEN SplitFrom(Tail(s), <<>>, IF cur = <<>> THEN acc ELSE Append(acc, cur))
         ELSE SplitFrom(Tail(s), Append(cur, Head(s)), acc)

SplitWhitespace(s) == SplitFrom(s, <<>>, <<>>)

AllNumeric(w) == \A i \in 1..Len(w) : IsNumeric(w[i])

StartsWith(s, prefix) ==
    /\ Len(s) >= Len(prefix)
    /\ SubSeq(s, 1, Len(prefix)) = prefix

\* Iterator::find: the first element satisfying the predicate
\* (hits: the indices of the elements that satisfy it)
FindFirst(seq, hits) ==
    IF hits = {} THEN None
    ELSE Some(seq[CHOOSE i \in hits : \A j \in hits : i <= j])

\* Iterator::last
Last(seq) == IF seq = <<>> THEN None ELSE Some(seq[Len(seq)])

\* filter_map(|n| n.attr("href")): the hrefs of the anchors that have one
RECURSIVE Hrefs(_)
Hrefs(links) ==
    IF links = <<>> THEN <<>>
    ELSE IF IsSome(Head(links)) THEN <<Head(links)[1]>> \o Hrefs(Tail(links))
    ELSE Hrefs(Tail(links))

TelPrefix == <<"t", "e", "l", ":">>
HttpPrefix == <<"h", "t", "t", "p">>
AnyHref(href) == TRUE

IsTel(href) == StartsWith(href, TelPrefix)
IsHttp(href) == StartsWith(href, HttpPrefix)

Postcode(address_text) ==
    LET words == SplitWhitespace(address_text) IN
    FindFirst(words, {i \in 1..Len(words) : AllNumeric(words[i])})
City(address_text) == Last(SplitWhitespace(Trim(address_text)))
Phone(links) ==
    LET hrefs == Hrefs(links) IN
    FindFirst(hrefs, {i \in 1..Len(hrefs) : IsTel(hrefs[i])})

\* one iterator for both searches: the second resumes where the first stopped
WebsiteSharedCursor(links) ==
    LET hrefs == Hrefs(links)
        tels == {i \in 1..Len(hrefs) : IsTel(hrefs[i])}
        from == IF tels = {} THEN Len(hrefs) + 1
                ELSE 1 + CHOOSE i \in tels : \A j \in tels : i <= j
    IN FindFirst(hrefs, {i \in from..Len(hrefs) : IsHttp(hrefs[i])})

Website(links) ==
    LET hrefs == Hrefs(links) IN
    FindFirst(hrefs, {i \in 1..Len(hrefs) : IsHttp(hrefs[i])})

\* A listing container: title and address are None when the element is
\* missing, links holds one Option per <a> (None: no href attribute).
\* The closure of the map: unwrap() on a missing element panics.
Malformed(card) == card.title = None \/ card.address = None

Clinic(card) ==
    LET address_text == Trim(card.address[1]) IN
    [name |-> Trim(card.title[1]),
     address |-> address_text,
     postcode |-> Postcode(address_text),
     city |-> City(address_text),
     phone |-> Phone(card.links),
     website |-> Website(card.links)]

RECURSIVE MapClinic(_)
MapClinic(body) ==
    IF body = <<>> THEN <<>>
    ELSE <<Clinic(Head(body))>> \o MapClinic(Tail(body))

Panics(body) == \E i \in 1..Len(body) : Malformed(body[i])

\* ------------------------------------------------- the pages of the site
DigitChar == <<"1", "2", "3", "4", "5", "6", "7", "8", "9">>
LetterChar == <<"a", "b">>

\* Entry i of page p: "\n Pxy " / " Rd p0  ZH\n" / <a>, <a href=tel:p>, <a href=http>
Card(p, i) ==
    [title |-> Some(<<"\n", " ", "P", DigitChar[p], LetterChar[i], " ">>),
     address |-> Some(<<" ", "R", "d", " ", DigitChar[p], "0", " ", " ", "Z", "H", "\n">>),
     links |-> <<None,
                 Some(<<"t", "e", "l", ":", DigitChar[p]>>),
                 Some(<<"h", "t", "t", "p", ":", LetterChar[i]>>)>>]

NoTitle(card) == [card EXCEPT !.title = None]
NoAddress(card) == [card EXCEPT !.address = None]

Kinds == {"send_err", "status_404", "text_err", "no_cards", "two_cards",
          "no_title", "no_address"}

Response(kind, p) ==
    [send |-> IF kind = "send_err" THEN "err" ELSE "ok",
     status |-> IF kind = "status_404" THEN 404 ELSE 200,
     text |-> IF kind = "text_err" THEN "err" ELSE "ok",
     body |-> CASE kind = "no_cards" -> <<>>
                [] kind = "no_title" -> <<Card(p, 1), NoTitle(Card(p, 2))>>
                [] kind = "no_address" -> <<NoAddress(Card(p, 1)), Card(p, 2)>>
                [] OTHER -> <<Card(p, 1), Card(p, 2)>>]

AnyStatus(status) == TRUE

\* StatusCode::is_success
IsSuccess(status) == status >= 200 /\ status < 300

\* ----------------------------------------------------------------- state
VARIABLES
    max_pages,      \* Scraper.max_pages
    max_parallel,   \* the limit the semaphore was created with
    permits,        \* free permits of Scraper.semaphore
    response,       \* what the site answers for each page
    mode,           \* which method was called: "none", "parallel", "sequential"
    run,            \* "created", "running", "returned", "error", "panicked"
    pc,             \* position of scrape_page(p) for each page p
    holds,          \* whether page task p holds a semaphore guard
    result,         \* the value scrape_page(p) returned, None until it did
    gets,           \* number of HTTP GETs issued for page p
    clinics,        \* the clinics vector of the running method
    out_of_order,   \* history: some page finished before a lower-numbered one
    page_results,   \* the records the map of scrape_page has produced so far
    file,           \* the text of clinics.csv, None while it does not exist
    csv_result,     \* what write_to_csv returned to main, None until it did
    main_pc,        \* position of main: "scrape", "report", "exit_ok", "exit_err"
    diag            \* the diagnostic lines main has printed

vars == <<max_pages, max_parallel, permits, response, mode, run, pc, holds,
          result, gets, clinics, out_of_order, page_results, file, csv_result,
          main_pc, diag>>

\* what the scraping methods never touch
aux == <<page_results, file, csv_result, main_pc, diag>>

config == <<max_pages, max_parallel, response>>

Pages == 1..max_pages

Init ==
    /\ max_pages \in 0..MaxPages
    /\ max_parallel \in 0..MaxParallel
    /\ permits = max_parallel
    /\ \E kind \in [1..max_pages -> Kinds] :
           response = [p \in 1..max_pages |-> Response(kind[p], p)]
    /\ mode = "none"
    /\ run = "created"
    /\ pc = [p \in 1..max_pages |-> "pending"]
    /\ holds = [p \in 1..max_pages |-> FALSE]
    /\ result = [p \in 1..max_pages |-> None]
    /\ gets = [p \in 1..max_pages |-> 0]
    /\ clinics = <<>>
    /\ out_of_order = FALSE
    /\ page_results = <<>>
    /\ file = None
    /\ csv_result = None
    /\ main_pc = "scrape"
    /\ diag = <<>>

\* -------------------------------------------------------------- helpers
\* client.get(&page_url).send(): one GET for "...?page=<page_num>"
IssueGet(g, page_num) == [g EXCEPT ![page_num] = @ + 1]

NeverPropagates(r) == FALSE

\* the ? operator of scrape_pages
Propagates(r) == ~r.ok

\* if let Ok(page_clinics) = result
Contribution(r) == IF r.ok THEN r.val ELSE <<>>

ReversedOrder(n) == [i \in 1..n |-> n + 1 - i]

\* the order in which the results of join_all are walked
ResultOrder(n) == [i \in 1..n |-> i]

RECURSIVE ExtendLast(_, _, _)
ExtendLast(acc, results, order) ==
    IF order = <<>> THEN acc
    ELSE ExtendLast(IF IsSome(results[Head(order)]) /\ results[Head(order)][1].ok
                    THEN results[Head(order)][1].val
                    ELSE acc,
                    results, Tail(order))

\* for result in results { ... clinics.extend(page_clinics) }
RECURSIVE Extend(_, _, _)
Extend(acc, results, order) ==
    IF order = <<>> THEN acc
    ELSE Extend(acc \o (IF IsSome(results[Head(order)])
                        THEN Contribution(results[Head(order)][1])
                        ELSE <<>>),
                results, Tail(order))

FirstDone == \A p \in Pages : p = 1 => pc[p] = "done"

\* join_all(...).await is ready
AllDone == \A p \in Pages : pc[p] = "done"

FailFastOutcome(results) ==
    IF \E p \in DOMAIN results : results[p] = Some(Err) THEN "error" ELSE "returned"

\* what scrape_pages_parallel returns after the loop
JoinOutcome(results) == "returned"

PrevStarted(p) == \A q \in Pages : q < p => pc[q] # "pending"

\* the loop of scrape_pages reaches page p
PrevDone(p) == \A q \in Pages : q < p => pc[q] = "done"

\* ------------------------------------------------------------------- csv
\* Option::unwrap_or_default on an Option<String>
UnwrapOrDefault(o) == IF IsSome(o) THEN o[1] ELSE <<>>

HeaderRow ==
    << <<"N", "a", "m", "e">>,
       <<"A", "d", "d", "r", "e", "s", "s">>,
       <<"P", "o", "s", "t", "c", "o", "d", "e">>,
       <<"C", "i", "t", "y">>,
       <<"P", "h", "o", "n", "e">>,
       <<"W", "e", "b", "s", "i", "t", "e">> >>

ClinicRow(clinic) ==
    <<clinic.name,
      clinic.address,
      UnwrapOrDefault(clinic.postcode),
      UnwrapOrDefault(clinic.city),
      UnwrapOrDefault(clinic.phone),
      UnwrapOrDefault(clinic.website)>>

\* csv::Writer, default settings: a field is quoted when it holds the
\* delimiter, a quote or a line break, and quotes inside it are doubled
NeedsQuotes(field) ==
    \E i \in 1..Len(field) : field[i] \in {",", "\"", "\n", "\r"}

RECURSIVE DoubleQuotes(_)
DoubleQuotes(field) ==
    IF field = <<>> THEN <<>>
    ELSE (IF Head(field) = "\"" THEN <<"\"", "\"">> ELSE <<Head(field)>>)
         \o DoubleQuotes(Tail(field))

CsvFieldRaw(field) == field

CsvField(field) ==
    IF NeedsQuotes(field) THEN <<"\"">> \o DoubleQuotes(field) \o <<"\"">>
    ELSE field

\* Writer::write_record: the fields separated by commas, then a line feed
RECURSIVE CsvRecord(_)
CsvRecord(fields) ==
    IF Len(fields) = 1 THEN CsvField(fields[1]) \o <<"\n">>
    ELSE CsvField(Head(fields)) \o <<",">> \o CsvRecord(Tail(fields))

\* the rows write_to_csv writes, in order
CsvRows(recs) == <<HeaderRow>> \o [i \in 1..Len(recs) |-> ClinicRow(recs[i])]

\* the text of the first n rows
RECURSIVE CsvText(_, _)
CsvText(rows, n) ==
    IF n = 0 THEN <<>> ELSE CsvText(rows, n - 1) \o CsvRecord(rows[n])

ExitWithError(r) == IF r.ok THEN "exit_ok" ELSE "exit_err"

\* main: the Err of write_to_csv is only printed, then Ok(())
MainExit(r) == "exit_ok"

\* ----------------------------------------------------------- operations
ScrapePagesParallel ==
    /\ run = "created"
    /\ run' = "running"
    /\ mode' = "parallel"
    /\ UNCHANGED <<config, aux, permits, pc, holds, result, gets, clinics, out_of_order>>

ScrapePages ==
    /\ run = "created"
    /\ run' = "running"
    /\ mode' = "sequential"
    /\ UNCHANGED <<config, aux, permits, pc, holds, result, gets, clinics, out_of_order>>

AcquireNoGate(p) ==
    /\ run = "running" /\ mode = "parallel"
    /\ pc[p] = "pending"
    /\ permits' = permits - 1
    /\ holds' = [holds EXCEPT ![p] = TRUE]
    /\ pc' = [pc EXCEPT ![p] = "sending"]
    /\ gets' = IssueGet(gets, p)
    /\ UNCHANGED <<config, aux, mode, run, result, clinics, out_of_order>>

\* semaphore.acquire().await resolves, scrape_page sends its request
Acquire(p) ==
    /\ run = "running" /\ mode = "parallel"
    /\ pc[p] = "pending"
    /\ permits > 0
    /\ permits' = permits - 1
    /\ holds' = [holds EXCEPT ![p] = TRUE]
    /\ pc' = [pc EXCEPT ![p] = "sending"]
    /\ gets' = IssueGet(gets, p)
    /\ UNCHANGED <<config, aux, mode, run, result, clinics, out_of_order>>

SeqStartGated(p) ==
    /\ run = "running" /\ mode = "sequential"
    /\ pc[p] = "pending"
    /\ PrevDone(p)
    /\ permits > 0
    /\ pc' = [pc EXCEPT ![p] = "sending"]
    /\ gets' = IssueGet(gets, p)
    /\ UNCHANGED <<config, aux, mode, run, permits, holds, result, clinics, out_of_order>>

\* the for loop of scrape_pages calls scrape_page(p), which sends its request
SeqStart(p) ==
    /\ run = "running" /\ mode = "sequential"
    /\ pc[p] = "pending"
    /\ PrevDone(p)
    /\ pc' = [pc EXCEPT ![p] = "sending"]
    /\ gets' = IssueGet(gets, p)
    /\ UNCHANGED <<config, aux, mode, run, permits, holds, result, clinics, out_of_order>>

\* as Finish, but the permit is given back only after an Ok
FinishLeak(p, r) ==
    /\ pc' = [pc EXCEPT ![p] = "done"]
    /\ result' = [result EXCEPT ![p] = Some(r)]
    /\ IF mode = "parallel"
       THEN /\ permits' = IF r.ok THEN permits + 1 ELSE permits
            /\ holds' = [holds EXCEPT ![p] = FALSE]
            /\ UNCHANGED <<run, clinics>>
       ELSE /\ IF Propagates(r)
               THEN run' = "error" /\ UNCHANGED clinics
               ELSE clinics' = clinics \o r.val /\ UNCHANGED run
            /\ UNCHANGED <<permits, holds>>
    /\ out_of_order' = (out_of_order \/ \E q \in Pages : q < p /\ pc[q] # "done")
    /\ UNCHANGED <<config, aux, mode, gets>>

\* scrape_page(p) returns r to its caller
Finish(p, r) ==
    /\ pc' = [pc EXCEPT ![p] = "done"]
    /\ result' = [result EXCEPT ![p] = Some(r)]
    /\ IF mode = "parallel"
       THEN /\ permits' = permits + 1
            /\ holds' = [holds EXCEPT ![p] = FALSE]
            /\ UNCHANGED <<run, clinics>>
       ELSE /\ IF Propagates(r)
               THEN run' = "error" /\ UNCHANGED clinics
               ELSE clinics' = clinics \o r.val /\ UNCHANGED run
            /\ UNCHANGED <<permits, holds>>
    /\ out_of_order' = (out_of_order \/ \E q \in Pages : q < p /\ pc[q] # "done")
    /\ UNCHANGED <<config, aux, mode, gets>>

\* a panic unwinds through the method: every future and guard is dropped
Panic(p) ==
    /\ run' = "panicked"
    /\ pc' = [q \in Pages |-> IF pc[q] = "done" THEN "done" ELSE "dropped"]
    /\ holds' = [q \in Pages |-> FALSE]
    /\ permits' = permits + Cardinality({q \in Pages : holds[q]})
    /\ UNCHANGED <<config, aux, mode, result, gets, clinics, out_of_order>>

SendDoneRetry(p) ==
    /\ run = "running"
    /\ pc[p] = "sending"
    /\ IF response[p].send = "err"
       THEN IF gets[p] < 2
            THEN /\ gets' = IssueGet(gets, p)
                 /\ UNCHANGED <<config, aux, mode, run, permits, pc, holds, result, clinics, out_of_order>>
            ELSE Finish(p, Err)
       ELSE IF ~IsSuccess(response[p].status) THEN Finish(p, Ok(<<>>))
       ELSE /\ pc' = [pc EXCEPT ![p] = "reading"]
            /\ UNCHANGED <<config, aux, mode, run, permits, holds, result, gets, clinics, out_of_order>>

\* send().await resolves
SendDone(p) ==
    /\ run = "running"
    /\ pc[p] = "sending"
    /\ IF response[p].send = "err" THEN Finish(p, Err)
       ELSE IF ~IsSuccess(response[p].status) THEN Finish(p, Ok(<<>>))
       ELSE /\ pc' = [pc EXCEPT ![p] = "reading"]
            /\ UNCHANGED <<config, aux, mode, run, permits, holds, result, gets, clinics, out_of_order>>

\* res.text().await resolves
TextDone(p) ==
    /\ run = "running"
    /\ pc[p] = "reading"
    /\ IF response[p].text = "err" THEN Finish(p, Err)
       ELSE /\ pc' = [pc EXCEPT ![p] = "extracting"]
            /\ UNCHANGED <<config, aux, mode, run, permits, holds, result, gets, clinics, out_of_order>>

\* Document::from(body).find(...).map(...).collect()
Extract(p) ==
    /\ run = "running"
    /\ pc[p] = "extracting"
    /\ IF Panics(response[p].body) THEN Panic(p)
       ELSE Finish(p, Ok(MapClinic(response[p].body)))

\* join_all is ready: walk the results and return
JoinAll ==
    /\ run = "running" /\ mode = "parallel"
    /\ AllDone
    /\ clinics' = Extend(clinics, result, ResultOrder(max_pages))
    /\ run' = JoinOutcome(result)
    /\ UNCHANGED <<config, aux, mode, permits, pc, holds, result, gets, out_of_order>>

\* the for loop of scrape_pages is exhausted: Ok(clinics)
SeqReturn ==
    /\ run = "running" /\ mode = "sequential"
    /\ AllDone
    /\ run' = "returned"
    /\ UNCHANGED <<config, aux, mode, permits, pc, holds, result, gets, clinics, out_of_order>>

\* main passes the returned clinics to write_to_csv.  File::create may fail;
\* a write or the flush may fail after any number of rows reached the file.
WriteToCsv(outcome) ==
    /\ main_pc = "scrape"
    /\ run = "returned" /\ mode = "parallel"
    /\ LET rows == CsvRows(clinics) IN
         CASE outcome = "create_failed" ->
                 /\ csv_result' = Some(Err)
                 /\ UNCHANGED file
           [] outcome = "write_failed" ->
                 /\ csv_result' = Some(Err)
                 /\ \E n \in 0..(Len(rows) - 1) : file' = Some(CsvText(rows, n))
           [] OTHER ->
                 /\ csv_result' = Some(Ok(<<>>))
                 /\ file' = Some(CsvText(rows, Len(rows)))
    /\ main_pc' = "report"
    /\ UNCHANGED <<config, permits, mode, run, pc, holds, result, gets, clinics,
                   out_of_order, page_results, diag>>

\* if let Err(err) = ... { println!(...) }; println!("Done!"); Ok(())
MainFinish ==
    /\ main_pc = "report"
    /\ diag' = diag \o (IF csv_result[1].ok THEN <<>> ELSE <<"Failed to write to csv">>)
                    \o <<"Done!">>
    /\ main_pc' = MainExit(csv_result[1])
    /\ UNCHANGED <<config, permits, mode, run, pc, holds, result, gets, clinics,
                   out_of_order, page_results, file, csv_result>>

Next ==
    \/ ScrapePagesParallel
    \/ ScrapePages
    \/ \E p \in Pages : Acquire(p)
    \/ \E p \in Pages : SeqStart(p)
    \/ \E p \in Pages : SendDone(p)
    \/ \E p \in Pages : TextDone(p)
    \/ \E p \in Pages : Extract(p)
    \/ JoinAll
    \/ SeqReturn
    \/ \E outcome \in {"ok", "create_failed", "write_failed"} : WriteToCsv(outcome)
    \/ MainFinish

Spec == Init /\ [][Next]_vars

\* every network operation finishes and every ready future is polled again
LiveInit == Init /\ max_pages <= MaxLivePages

FairSpec ==
    /\ LiveInit /\ [][Next]_vars
    /\ WF_vars(\E p \in Pages : Acquire(p))
    /\ WF_vars(\E p \in Pages : SendDone(p))
    /\ WF_vars(\E p \in Pages : TextDone(p))
    /\ WF_vars(\E p \in Pages : Extract(p))
    /\ WF_vars(JoinAll)

\* --------------------------------------- the extraction of one page, entry by entry
RECURSIVE SeqsOfLen(_, _)
SeqsOfLen(S, n) ==
    IF n = 0 THEN {<<>>}
    ELSE {Append(sq, x) : sq \in SeqsOfLen(S, n - 1), x \in S}

SeqsUpTo(S, n) == UNION {SeqsOfLen(S, k) : k \in 0..n}

RECURSIVE SetToSeq(_)
SetToSeq(S) ==
    IF S = {} THEN <<>>
    ELSE LET x == CHOOSE y \in S : TRUE IN <<x>> \o SetToSeq(S \ {x})

\* the characters of the address texts and the anchors of the entries tried
AddrChars == {" ", "1", "2", "a", "¾"}

LinkKinds ==
    {None,
     Some(<<"m", "a", "i", "l", "t", "o", ":", "x">>),
     Some(<<"t", "e", "l", ":", "1">>),
     Some(<<"t", "e", "l", ":", "2">>),
     Some(<<"h", "t", "t", "p", ":", "a">>),
     Some(<<"h", "t", "t", "p", "s", ":", "b">>)}

\* "Bahnhofstrasse 12 8001 Zürich"
ExampleAddress ==
    <<"B", "a", "h", "n", "h", "o", "f", "s", "t", "r", "a", "s", "s", "e", " ",
      "1", "2", " ", "8", "0", "0", "1", " ", "Z", "ü", "r", "i", "c", "h">>

EntryCard(addr, links) ==
    [title |-> Some(<<" ", "C", " ">>), address |-> Some(addr), links |-> links]

EntryCards(addr_len, n_links) ==
    {EntryCard(addr, links) : addr \in SeqsUpTo(AddrChars, addr_len),
                              links \in SeqsUpTo(LinkKinds, n_links)}

\* a page listing every entry of the small bounds once
Catalogue == SetToSeq(EntryCards(CatAddrLen, CatLinks))

Bodies ==
    {<<card>> : card \in EntryCards(MaxAddrLen, MaxLinks)}
    \cup {<<EntryCard(ExampleAddress, <<>>)>>,
          <<NoTitle(EntryCard(ExampleAddress, <<>>))>>,
          Catalogue}

\* scrape_page(1) of a one-page sequential run has received the body
ExtractInit ==
    /\ max_pages = 1
    /\ max_parallel = 1
    /\ permits = 1
    /\ \E body \in Bodies :
           response = [p \in {1} |-> [send |-> "ok", status |-> 200, text |-> "ok",
                                      body |-> body]]
    /\ mode = "sequential"
    /\ run = "running"
    /\ pc = [p \in {1} |-> "extracting"]
    /\ holds = [p \in {1} |-> FALSE]
    /\ result = [p \in {1} |-> None]
    /\ gets = [p \in {1} |-> 1]
    /\ clinics = <<>>
    /\ out_of_order = FALSE
    /\ page_results = <<>>
    /\ file = None
    /\ csv_result = None
    /\ main_pc = "scrape"
    /\ diag = <<>>

\* the closure of the map runs on the next listing container
ExtractEntry ==
    /\ run = "running"
    /\ pc[1] = "extracting"
    /\ Len(page_results) < Len(response[1].body)
    /\ LET card == response[1].body[Len(page_results) + 1] IN
         IF Malformed(card)
         THEN Panic(1)
         ELSE /\ page_results' = Append(page_results, Clinic(card))
              /\ UNCHANGED <<config, permits, mode, run, pc, holds, result, gets,
                             clinics, out_of_order, file, csv_result, main_pc, diag>>

ExtractNext == ExtractEntry

ExtractSpec == ExtractInit /\ [][ExtractNext]_vars

TypeOK ==
    /\ max_pages \in 0..MaxPages
    /\ max_parallel \in 0..MaxParallel
    /\ permits \in 0..max_parallel
    /\ mode \in {"none", "parallel", "sequential"}
    /\ run \in {"created", "running", "returned", "error", "panicked"}
    /\ \A p \in Pages :
         /\ pc[p] \in {"pending", "sending", "reading", "extracting", "done", "dropped"}
         /\ holds[p] \in BOOLEAN
         /\ gets[p] \in 0..1
         /\ Len(result[p]) <= 1
    /\ out_of_order \in BOOLEAN
    /\ Len(file) <= 1
    /\ Len(csv_result) <= 1
    /\ main_pc \in {"scrape", "report", "exit_ok", "exit_err"}

\* ------------------------------------------------- vocabulary of the claims
\* the success range of HTTP status codes
SuccessRange == 200..299

\* pages whose request was sent and whose response is not fully received
Outstanding == {p \in Pages : pc[p] \in {"sending", "reading"}}

TransportFails(resp) ==
    \/ resp.send = "err"
    \/ resp.send = "ok" /\ resp.status \in SuccessRange /\ resp.text = "err"

NonSuccess(resp) == resp.send = "ok" /\ resp.status \notin SuccessRange

NoContainers(resp) ==
    /\ resp.send = "ok" /\ resp.status \in SuccessRange /\ resp.text = "ok"
    /\ resp.body = <<>>

HasMalformed(resp) ==
    /\ resp.send = "ok" /\ resp.status \in SuccessRange /\ resp.text = "ok"
    /\ \E i \in 1..Len(resp.body) :
           resp.body[i].title = None \/ resp.body[i].address = None

\* the records a page's response stands for
RecordsIn(resp) ==
    IF TransportFails(resp) \/ NonSuccess(resp) THEN <<>> ELSE MapClinic(resp.body)

\* the page a record was extracted from (its name is "P<page><entry>")
PageOf(c) == CHOOSE p \in 1..Len(DigitChar) : DigitChar[p] = c.name[2]

FromPage(recs, p) == SelectSeq(recs, LAMBDA c : PageOf(c) = p)

RECURSIVE ConcatPages(_, _)
ConcatPages(f, n) == IF n = 0 THEN <<>> ELSE ConcatPages(f, n - 1) \o f[n]

Returned(p) == IsSome(result[p])
ReturnedOk(p) == IsSome(result[p]) /\ result[p][1].ok
ReturnedErr(p) == IsSome(result[p]) /\ ~result[p][1].ok

\* C1: in bounded-concurrent mode the number of pages with an outstanding
\* network request never exceeds the concurrency limit.
C1_OutstandingBounded ==
    mode = "parallel" => Cardinality(Outstanding) <= max_parallel

C1_Witness ==
    /\ mode = "parallel"
    /\ max_parallel >= 2
    /\ max_pages > max_parallel
    /\ Cardinality(Outstanding) = max_parallel
    /\ \E p \in Pages : pc[p] = "pending"

\* C2: in bounded-concurrent mode the returned sequence is the concatenation
\* of the per-page record lists in page-number order, whatever the order in
\* which the page tasks completed; it is determined by the page responses.
C2_PageOrder ==
    (mode = "parallel" /\ run = "returned") =>
        /\ clinics = ConcatPages([p \in Pages |-> Contribution(result[p][1])], max_pages)
        /\ \A i, j \in 1..Len(clinics) : i < j => PageOf(clinics[i]) <= PageOf(clinics[j])
        /\ clinics = ConcatPages([p \in Pages |-> RecordsIn(response[p])], max_pages)

C2_Witness ==
    /\ mode = "parallel" /\ run = "returned"
    /\ out_of_order
    /\ \E p, q \in Pages : p < q /\ FromPage(clinics, p) # <<>> /\ FromPage(clinics, q) # <<>>

\* C3: in bounded-concurrent mode a transport failure on any subset of pages
\* makes exactly those pages contribute nothing; the run never returns an
\* error, and what it returns holds, page by page, every record of every
\* page that did not fail.
C3_FailureIsolated ==
    mode = "parallel" =>
        /\ run # "error"
        /\ \A p \in Pages :
             (pc[p] = "done" /\ TransportFails(response[p])) => result[p] = Some(Err)
        /\ run = "returned" =>
             \A p \in Pages :
                FromPage(clinics, p) =
                    IF TransportFails(response[p]) THEN <<>> ELSE RecordsIn(response[p])

C3_Witness ==
    /\ mode = "parallel" /\ run = "returned"
    /\ \E p, q, r \in Pages :
         /\ response[p].send = "err"
         /\ response[q].send = "ok" /\ response[q].text = "err"
         /\ FromPage(clinics, r) # <<>>

\* C4: a listing container without its title or address element is not a
\* crash condition: in bounded-concurrent mode the run never panics.
C4_NoCrash ==
    mode = "parallel" => run # "panicked"

\* C5: in bounded-concurrent mode no page task holds a gate slot while it is
\* extracting records from markup.
C5_GateOnlyAroundIO ==
    \A p \in Pages : (mode = "parallel" /\ pc[p] = "extracting") => ~holds[p]

\* C6: in sequential mode, when page p's fetch hits a transport error the run
\* returns that error instead of a record sequence and no page after p is
\* ever requested.
C6_FailFast ==
    mode = "sequential" =>
        /\ \A p \in Pages :
             ReturnedErr(p) =>
                /\ run = "error"
                /\ TransportFails(response[p])
                /\ \A q \in Pages : q > p => gets[q] = 0 /\ pc[q] = "pending"
                /\ \A q \in Pages : q < p => ~TransportFails(response[q])
        /\ \A p \in Pages :
             (pc[p] = "done" /\ TransportFails(response[p])) => ReturnedErr(p)
        /\ run = "error" => \E p \in Pages : ReturnedErr(p)

C6_Witness ==
    /\ mode = "sequential" /\ run = "error"
    /\ clinics # <<>>
    /\ \E p \in Pages : 1 < p /\ p < max_pages /\ ReturnedErr(p)

\* C7: in both modes a page with a non-success status or with zero listing
\* containers returns an empty record list and no error; it does not stop the
\* run (sequential mode requests the next page after it), and the returned
\* sequence holds the records of the other pages.
C7_BenignPages ==
    \A p \in Pages :
        (pc[p] = "done" /\ (NonSuccess(response[p]) \/ NoContainers(response[p]))) =>
            /\ result[p] = Some(Ok(<<>>))
            /\ run = "error" => \E q \in Pages : q # p /\ ReturnedErr(q)
            /\ run = "panicked" => \E q \in Pages : q # p /\ HasMalformed(response[q])
            /\ (mode = "sequential" /\ run # "running" /\ p < max_pages) => gets[p + 1] = 1
            /\ run = "returned" =>
                 /\ FromPage(clinics, p) = <<>>
                 /\ \A q \in Pages : FromPage(clinics, q) = Contribution(result[q][1])

C7_Witness ==
    /\ mode = "sequential" /\ run = "returned"
    /\ clinics # <<>>
    /\ \E p, q \in Pages :
         /\ p < max_pages /\ q < max_pages
         /\ NonSuccess(response[p]) /\ NoContainers(response[q])

\* C8: in bounded-concurrent mode no record is added to the final collection
\* and the run does not return before every page task has completed, and the
\* step that writes the collection is not a step of a page task.
C8_AggregateAfterAll ==
    [][(mode = "parallel" /\ (clinics' # clinics \/ (run' = "returned" /\ run # "returned")))
          => /\ \A p \in Pages : pc[p] = "done" /\ Returned(p)
             /\ pc' = pc /\ result' = result /\ holds' = holds]_vars

C8_Witness ==
    /\ mode = "parallel" /\ run = "returned"
    /\ max_pages >= 2
    /\ out_of_order
    /\ Len(clinics) >= 2
    /\ \E p \in Pages : ReturnedErr(p)

\* C9: no page is retried: each page number receives at most one GET in
\* either mode, and a bounded-concurrent run that returns has sent exactly
\* one GET for every page, whether it succeeded, was skipped or failed.
C9_NoRetry ==
    /\ \A p \in Pages : gets[p] <= 1
    /\ (mode = "parallel" /\ run = "returned") => \A p \in Pages : gets[p] = 1

C9_Witness ==
    /\ mode = "parallel" /\ run = "returned"
    /\ \E p, q, r \in Pages :
         /\ TransportFails(response[p])
         /\ NonSuccess(response[q])
         /\ FromPage(clinics, r) # <<>>

\* C10: in sequential mode at most one request is outstanding in any state,
\* and a page is requested only after every lower-numbered page has been
\* fetched, extracted and appended.
C10_OneAtATime ==
    mode = "sequential" =>
        /\ Cardinality(Outstanding) <= 1
        /\ \A p \in Pages :
             gets[p] > 0 =>
                \A q \in Pages :
                   q < p => /\ pc[q] = "done"
                            /\ ReturnedOk(q)
                            /\ FromPage(clinics, q) = result[q][1].val

C10_Witness ==
    /\ mode = "sequential" /\ run = "running"
    /\ \E p \in Pages :
         /\ p >= 3
         /\ pc[p] \in {"sending", "reading"}
         /\ FromPage(clinics, p - 1) # <<>>
         /\ FromPage(clinics, p - 2) = <<>>

\* ------------------------------------------- main after a scrape returned
\* characters of titles that matter to the csv writer
CsvChars == {"a", ",", "\""}

\* an entry without address tokens and anchors, and one whose address and
\* hrefs hold commas, quotes and a line break
PlainRest == [address |-> <<" ">>, links |-> <<None>>]
TrickyRest ==
    [address |-> <<"7", ",", " ", "\"", "\n", "8", " ", ",", "a">>,
     links |-> <<Some(<<"t", "e", "l", ":", "\"", "1">>),
                 Some(<<"h", "t", "t", "p", ":", ",">>)>>]

CsvCards ==
    {[title |-> Some(title), address |-> Some(rest.address), links |-> rest.links] :
        title \in SeqsUpTo(CsvChars, MaxFieldLen), rest \in {PlainRest, TrickyRest}}

\* scrape_pages_parallel has returned the records of a one-page site to main
CsvInit ==
    /\ max_pages = 1
    /\ max_parallel = 1
    /\ permits = 1
    /\ \E body \in SeqsUpTo(CsvCards, MaxRecords) :
           /\ response = [p \in {1} |-> [send |-> "ok", status |-> 200, text |-> "ok",
                                         body |-> body]]
           /\ result = [p \in {1} |-> Some(Ok(MapClinic(body)))]
           /\ clinics = MapClinic(body)
    /\ mode = "parallel"
    /\ run = "returned"
    /\ pc = [p \in {1} |-> "done"]
    /\ holds = [p \in {1} |-> FALSE]
    /\ gets = [p \in {1} |-> 1]
    /\ out_of_order = FALSE
    /\ page_results = <<>>
    /\ file = None
    /\ csv_result = None
    /\ main_pc = "scrape"
    /\ diag = <<>>

CsvNext ==
    \/ \E outcome \in {"ok", "create_failed", "write_failed"} : WriteToCsv(outcome)
    \/ MainFinish

CsvSpec == CsvInit /\ [][CsvNext]_vars

\* ------------------------------------- vocabulary of the extraction claims
Digits == {"0", "1", "2", "3", "4", "5", "6", "7", "8", "9"}

\* text[i..j] is a whitespace-delimited token of text
IsTokenAt(text, i, j) ==
    /\ i <= j
    /\ \A k \in i..j : text[k] \notin WhiteSpace
    /\ i = 1 \/ text[i - 1] \in WhiteSpace
    /\ j = Len(text) \/ text[j + 1] \in WhiteSpace

TokenSpans(text) ==
    {sp \in (1..Len(text)) \X (1..Len(text)) : IsTokenAt(text, sp[1], sp[2])}

FirstDigitToken(text) ==
    LET spans == {sp \in TokenSpans(text) : \A k \in sp[1]..sp[2] : text[k] \in Digits} IN
    IF spans = {} THEN None
    ELSE LET sp == CHOOSE a \in spans : \A b \in spans : a[1] <= b[1]
         IN Some(SubSeq(text, sp[1], sp[2]))

LastToken(text) ==
    LET spans == TokenSpans(text) IN
    IF spans = {} THEN None
    ELSE LET sp == CHOOSE a \in spans : \A b \in spans : a[1] >= b[1]
         IN Some(SubSeq(text, sp[1], sp[2]))

Begins(href, prefix) ==
    /\ Len(href) >= Len(prefix)
    /\ \A m \in 1..Len(prefix) : href[m] = prefix[m]

\* the first hyperlink reference of links that begins with prefix
FirstRef(links, prefix) ==
    LET at == {k \in 1..Len(links) : links[k] # None /\ Begins(links[k][1], prefix)} IN
    IF at = {} THEN None
    ELSE links[CHOOSE k \in at : \A m \in at : k <= m]

\* entry i of the page has been extracted into page_results[i]
Extracted == 1..Len(page_results)
EntryOf(i) == response[1].body[i]

OptionalFields == {"postcode", "city", "phone", "website"}

CatalogueDone ==
    /\ response[1].body = Catalogue
    /\ Len(page_results) = Len(Catalogue)

\* some extracted record lacks field f and has field g
AbsentPresent(f, g) ==
    \E i \in Extracted : page_results[i][f] = None /\ page_results[i][g] # None

\* C11: for every address the extracted postcode is the first
\* whitespace-delimited token made only of digits (none if there is none) and
\* the extracted city is the last token (none exactly when there is no token).
C11_PostcodeCity ==
    \A i \in Extracted :
        LET text == EntryOf(i).address[1] IN
        /\ page_results[i].postcode = FirstDigitToken(text)
        /\ page_results[i].city = LastToken(text)
        /\ page_results[i].city = None <=> TokenSpans(text) = {}

\* C12: for "Bahnhofstrasse 12 8001 Zürich" the extracted postcode is "8001"
\* and the extracted city is "Zürich".
C12_Example ==
    \A i \in Extracted :
        EntryOf(i).address[1] = ExampleAddress =>
            /\ page_results[i].postcode = Some(<<"8", "0", "0", "1">>)
            /\ page_results[i].city = Some(<<"Z", "ü", "r", "i", "c", "h">>)

\* C13 as stated: for every ordered pair of distinct optional fields some
\* producible record lacks the first and has the second.
C13_Independent ==
    CatalogueDone =>
        \A f, g \in OptionalFields : f # g => AbsentPresent(f, g)

\* C13 as amended: a record without city has no postcode; for every other
\* ordered pair of distinct optional fields some producible record lacks the
\* first and has the second.
C13_IndependentButCity ==
    /\ \A i \in Extracted :
         page_results[i].city = None => page_results[i].postcode = None
    /\ CatalogueDone =>
         \A f, g \in OptionalFields :
            (f # g /\ <<f, g>> # <<"city", "postcode">>) => AbsentPresent(f, g)

C13_Witness ==
    /\ CatalogueDone
    /\ AbsentPresent("postcode", "city")
    /\ AbsentPresent("website", "phone")

\* C14: phone is the first hyperlink reference that begins with "tel:" and
\* website the first that begins with "http", each searched from the start of
\* the references, each none when no reference matches.
C14_PhoneWebsite ==
    \A i \in Extracted :
        /\ page_results[i].phone = FirstRef(EntryOf(i).links, <<"t", "e", "l", ":">>)
        /\ page_results[i].website = FirstRef(EntryOf(i).links, <<"h", "t", "t", "p">>)

C14_Witness ==
    \E i \in Extracted :
        /\ EntryOf(i).links = <<Some(<<"m", "a", "i", "l", "t", "o", ":", "x">>),
                                Some(<<"t", "e", "l", ":", "1">>),
                                Some(<<"h", "t", "t", "p", ":", "a">>)>>
        /\ page_results[i].phone = Some(<<"t", "e", "l", ":", "1">>)
        /\ page_results[i].website = Some(<<"h", "t", "t", "p", ":", "a">>)

\* ------------------------------------------ vocabulary of the csv claims
\* reading csv text: records end at a line feed, fields at a comma; a field
\* that opens with a quote runs to its closing quote, "" standing for a quote
RECURSIVE Unescape(_)
Unescape(field) ==
    IF field = <<>> THEN <<>>
    ELSE IF Head(field) = "\"" THEN <<"\"">> \o Unescape(SubSeq(field, 3, Len(field)))
    ELSE <<Head(field)>> \o Unescape(Tail(field))

QuotesIn(text, i, j) == Cardinality({k \in i..j : text[k] = "\""})

\* the field that starts at text[i]: its value and the index after it
ReadField(text, i) ==
    IF i <= Len(text) /\ text[i] = "\""
    THEN LET closing == {j \in (i + 1)..Len(text) :
                            /\ text[j] = "\""
                            /\ QuotesIn(text, i + 1, j - 1) % 2 = 0
                            /\ j = Len(text) \/ text[j + 1] # "\""}
             close == IF closing = {} THEN Len(text) + 1
                      ELSE CHOOSE j \in closing : \A k \in closing : j <= k
         IN [value |-> Unescape(SubSeq(text, i + 1, close - 1)), next |-> close + 1]
    ELSE LET ends == {j \in i..Len(text) : text[j] \in {",", "\n"}} \cup {Len(text) + 1}
             end == CHOOSE j \in ends : \A k \in ends : j <= k
         IN [value |-> SubSeq(text, i, end - 1), next |-> end]

RECURSIVE ReadCsv(_, _, _, _)
ReadCsv(text, i, row, rows) ==
    IF i > Len(text) THEN rows
    ELSE LET fld == ReadField(text, i) IN
         IF fld.next <= Len(text) /\ text[fld.next] = ","
         THEN ReadCsv(text, fld.next + 1, Append(row, fld.value), rows)
         ELSE ReadCsv(text, fld.next + 1, <<>>, Append(rows, Append(row, fld.value)))

RowsRead == ReadCsv(file[1], 1, <<>>, <<>>)

OptionalColumn == [postcode |-> 3, city |-> 4, phone |-> 5, website |-> 6]

Written == csv_result # None /\ csv_result[1].ok

\* C15: write_to_csv emits the header row and then one row per Record in
\* order; read back, name and address equal the originals and each optional
\* column is empty exactly when the field is absent and else equals it.
C15_RoundTrip ==
    Written =>
        /\ Len(RowsRead) = Len(clinics) + 1
        /\ RowsRead[1] = HeaderRow
        /\ \A i \in 1..Len(clinics) :
             LET row == RowsRead[i + 1] IN
             /\ Len(row) = 6
             /\ row[1] = clinics[i].name
             /\ row[2] = clinics[i].address
             /\ \A f \in OptionalFields :
                  IF clinics[i][f] = None
                  THEN row[OptionalColumn[f]] = <<>>
                  ELSE /\ row[OptionalColumn[f]] = clinics[i][f][1]
                       /\ row[OptionalColumn[f]] # <<>>

C15_Witness ==
    /\ Written
    /\ Len(clinics) = 2
    /\ clinics[1].phone = None /\ clinics[1].city = None
    /\ clinics[2].phone # None /\ clinics[2].postcode # None
    /\ \E j \in 1..Len(clinics[2].name) : clinics[2].name[j] = "\""
    /\ \E j \in 1..Len(clinics[2].address) : clinics[2].address[j] = "\n"

\* ----------------------------------------- claims about main and the gate
\* C16: a failure of write_to_csv comes back to main as an Err; main only
\* prints it, the scrape stays returned, and main still exits with Ok.
C16_CsvFailureReported ==
    /\ main_pc # "exit_err"
    /\ main_pc # "scrape" => run = "returned" /\ csv_result # None
    /\ main_pc = "exit_ok" =>
         diag = IF csv_result[1].ok THEN <<"Done!">>
                ELSE <<"Failed to write to csv", "Done!">>
    /\ (csv_result # None /\ csv_result[1].ok) =>
         file = Some(CsvText(CsvRows(clinics), Len(clinics) + 1))

C16_Witness ==
    /\ main_pc = "exit_ok"
    /\ csv_result = Some(Err)
    /\ clinics # <<>>
    /\ file # None /\ file # Some(<<>>)

\* C17: with a concurrency limit of at least 1, and every network operation
\* finishing and fair scheduling, a bounded-concurrent run eventually returns.
C17_EventuallyReturns ==
    (mode = "parallel" /\ max_parallel >= 1) ~> (run = "returned")

\* C18: free permits plus permits held by page tasks always equal the limit,
\* and when the run returns every permit is free again, also after pages that
\* ended in a non-success status or a transport error.
C18_PermitsConserved ==
    /\ permits + Cardinality({p \in Pages : holds[p]}) = max_parallel
    /\ \A p \in Pages : holds[p] <=> (mode = "parallel" /\ pc[p] \in {"sending", "reading", "extracting"})
    /\ run = "returned" => permits = max_parallel

C18_Witness ==
    /\ mode = "parallel" /\ run = "returned"
    /\ max_parallel >= 1 /\ max_pages > max_parallel
    /\ permits = max_parallel
    /\ \E p, q \in Pages : TransportFails(response[p]) /\ NonSuccess(response[q])

\* C19: when no page hits a transport error, the sequential run and the
\* bounded-concurrent run over the same responses return the same sequence:
\* each returns the records the responses stand for, concatenated in page
\* order, for every limit and every interleaving.
C19_ModesAgree ==
    (run = "returned" /\ \A p \in Pages : ~TransportFails(response[p])) =>
        /\ mode \in {"parallel", "sequential"}
        /\ clinics = ConcatPages([p \in Pages |-> RecordsIn(response[p])], max_pages)

C19_Witness ==
    /\ mode = "parallel" /\ run = "returned"
    /\ max_parallel >= 2
    /\ out_of_order
    /\ \A p \in Pages : ~TransportFails(response[p])
    /\ \E p, q \in Pages : NonSuccess(response[p]) /\ FromPage(clinics, q) # <<>>

\* C20: with a limit of 0 and at least one page, a bounded-concurrent run
\* sends no request and never returns, every page task waiting at the gate;
\* a sequential run never touches the gate and is never stuck.
C20_ZeroLimit ==
    /\ (mode = "parallel" /\ max_parallel = 0 /\ max_pages >= 1) =>
          /\ run = "running"
          /\ \A p \in Pages : gets[p] = 0 /\ pc[p] = "pending"
          /\ ~ENABLED (\E p \in Pages : Acquire(p))
          /\ ~ENABLED JoinAll
    /\ mode = "sequential" =>
          /\ permits = max_parallel
          /\ (/\ max_parallel = 0 /\ run = "running"
              /\ \A p \in Pages : pc[p] \in {"pending", "done"}
              /\ \E p \in Pages : pc[p] = "pending")
                => ENABLED (\E p \in Pages : SeqStart(p))

C20_Witness ==
    /\ mode = "parallel"
    /\ max_parallel = 0
    /\ max_pages >= 2
    /\ run = "running"
====
